---- MODULE Spec2Model ----
(***************************************************************************)
(* Model of the KNXnet/IP tunnel session of pknx (knxip/ip.py):            *)
(* KNXIPTunnel.connect / disconnect / send_tunnelling_request /            *)
(* group_read, the DataRequestHandler that dispatches inbound datagrams,   *)
(* and the ValueCache of knxip/core.py.  Client threads, the handler       *)
(* threads of the data server and the gateway are interleaved at the       *)
(* granularity of the blocking calls and of the shared-field accesses.     *)
(***************************************************************************)
EXTENDS Integers, Sequences, FiniteSets, Bags, TLC

(***************************************************************************)
(* Bounds of the model.                                                    *)
(***************************************************************************)
MaxOps == 3        \* top-level client calls in one behaviour of Spec
MaxReadOps == 2    \* ... of SpecRead
MaxRaceOps == 2    \* ... of SpecRace
MaxBus == 2        \* telegrams the gateway sends in one behaviour
MaxToggleOps == 2  \* top-level client calls in one behaviour of SpecToggle
MaxListenOps == 4  \* ... of SpecListen and of SpecDispatch
MaxBodyLen == 300  \* bytes of the longest frame body that is encoded
MaxBeatOps == 2    \* ... of SpecHeartbeat and of SpecKeepAlive
MaxChecks == 2     \* heartbeat checks in one behaviour of SpecHeartbeat
MaxCtl == 2        \* datagrams in flight to, or queued at, the control socket

Clients == {"c1", "c2"}
Addrs == {1, 2}
Payloads == {<<0>>, <<1>>}
Funcs == {"f1", "f2"}         \* listener functions of the application
GwChannels == {0, 1}          \* channel ids a gateway may assign
GwStatus == {0, 36}           \* E_NO_ERROR, E_NO_MORE_CONNECTIONS

(***************************************************************************)
(* Program constants.                                                      *)
(***************************************************************************)
SeqMax == 255                 \* 0xff in send_tunnelling_request / disconnect
L_DATA_IND == 41              \* 0x29
L_DATA_CON == 46              \* 0x2e
L_DATA_REQ == 17              \* 0x11
NoChannel == -1               \* KNXIPTunnel.channel = None
NoValue == <<>>               \* Python None for a payload

VARIABLES
    cacheKind,      \* "default": ValueCache(); "custom": injected valueCache
    remote_ip,      \* "0.0.0.0" or "gw"
    connected,      \* KNXIPTunnel.connected
    channel,        \* KNXIPTunnel.channel
    seq,            \* KNXIPTunnel.seq
    data_server,    \* TRUE iff KNXIPTunnel.data_server is not None
    control_socket, \* TRUE iff KNXIPTunnel.control_socket is not None
    values,         \* ValueCache.values
    ack_semaphore,  \* counter of KNXIPTunnel.ack_semaphore
    result_queue,   \* KNXIPTunnel.result_queue
    th,             \* per client thread: position, call stack, locals
    toGw,           \* bag of the sequence numbers of the TUNNELING_REQUESTs
                    \* the gateway has received and not acknowledged
    discPending,    \* a DISCONNECT_REQUEST the gateway has not answered
    out,            \* frames put on the wire by the last step
    rcv,            \* the datagram the last step received, if any
    seen,           \* per address, the payload of the last telegram the
                    \* dispatcher processed since the last connect attempt
    ops,            \* top-level calls started so far
    bus,            \* gateway-originated datagrams so far
    address_listeners, \* KNXIPTunnel.address_listeners: a dict from
                    \* address to the list of its listener functions
    notify,         \* TRUE iff KNXIPTunnel.notify is set
    calls,          \* the callbacks invoked for the last telegram that
                    \* was dispatched, in the order of their invocation
    hth,            \* the handler threads the data server has started,
                    \* in the order of arrival of their datagrams
    scan,           \* the GatewayScanner during start_search
    codec,          \* an object of the frame codec, its encoding and the
                    \* result of decoding that encoding
    queued,         \* for each payload in result_queue, the destination
                    \* of its GROUP_RESPONSE and whether a group_read had
                    \* transmitted its request when it was queued
    connection_state, \* KNXIPTunnel.connection_state
    beat,           \* the keepalive thread: position and the locals of
                    \* check_connection_state
    ctl,            \* the control socket: the datagrams it has received
                    \* and not delivered, and the CONNECTIONSTATE_REQUESTs
                    \* the gateway has received on it and not answered
    tunnels         \* per KNXIPTunnel object of the process, the
                    \* registrations made through it and not undone; and
                    \* the receiver of the last telegram

vars == <<cacheKind, remote_ip, connected, channel, seq, data_server,
          control_socket, values, ack_semaphore, result_queue, th, toGw,
          discPending, out, rcv, seen, ops, bus, address_listeners, notify,
          calls, hth, scan, codec, queued, connection_state, beat, ctl,
          tunnels>>

\* what the tunnel session itself (connect, disconnect, send, read) leaves
\* alone
ext == <<address_listeners, notify, calls, hth, scan, codec, queued,
         connection_state, beat, tunnels>>

\* what neither the client calls of the tunnel nor the handler of a
\* TUNNELING_REQUEST touch: the gateway scanner, the objects of the frame
\* codec, the heartbeat with the control socket it reads, and the other
\* tunnel objects
aux == <<scan, codec, connection_state, beat, ctl, tunnels>>

shared == <<connected, channel, seq, data_server, control_socket, values,
            ack_semaphore, result_queue>>

(***************************************************************************)
(* Frames.  Every frame is a record of the same shape.                     *)
(***************************************************************************)
Frame(svc, ch, sq, code, cmd, addr, data) ==
    [svc |-> svc, ch |-> ch, sq |-> sq, code |-> code, cmd |-> cmd,
     addr |-> addr, data |-> data]

ConnectRequest == Frame("CONNECT_REQUEST", 0, 0, 0, "-", 0, <<>>)
DisconnectRequest(ch) == Frame("DISCONNECT_REQUEST", ch, 0, 0, "-", 0, <<>>)
TunnelingRequest(ch, sq, cmd, addr, data) ==
    Frame("TUNNELING_REQUEST", ch, sq, L_DATA_REQ, cmd, addr, data)
TunnellingAck(ch, sq) == Frame("TUNNELLING_ACK", ch, sq, 0, "-", 0, <<>>)



(***************************************************************************)
(* ValueCache (core.py).                                                   *)
(***************************************************************************)
EmptyCache == [a \in Addrs |-> NoValue]

CacheGet(vals, name) == vals[name]

\* the comparison of old and new value inverted
CacheSetInverted(vals, name, value) ==
    IF vals[name] = value THEN [vals EXCEPT ![name] = value] ELSE vals

CacheSet(vals, name, value) ==
    IF vals[name] /= value THEN [vals EXCEPT ![name] = value] ELSE vals

\* the clear() of an injected cache object; ValueCache itself has none
CacheClear(vals) == EmptyCache

(***************************************************************************)
(* Thread records.                                                         *)
(***************************************************************************)
IdleThread ==
    [pc |-> "idle", stack |-> <<>>, op |-> "-", result |-> "-",
     val |-> NoValue, addr |-> 0, data |-> <<>>, auto |-> TRUE,
     uc |-> TRUE, fch |-> NoChannel, fsq |-> 0, lt |-> TRUE, cmd |-> "-",
     tx |-> 0, ac |-> 0, nd |-> 0, nc |-> 0, creq |-> 0, dreq |-> 0]

\* the thread after its top-level call: the locals are gone, what is kept
\* is the result and the number of frames the call put on the wire
Done(r, rv, v) ==
    [IdleThread EXCEPT !.op = r.op, !.result = rv, !.val = v,
                       !.tx = r.tx, !.creq = r.creq, !.dreq = r.dreq]

\* return statement: back to the caller, or the top-level call is over
Return(r, rv, v) ==
    IF r.stack = <<>>
    THEN Done(r, rv, v)
    ELSE [r EXCEPT !.pc = Head(r.stack), !.stack = Tail(r.stack)]

\* return of a value the caller uses
ReturnVal(r, rv, v) ==
    IF r.stack = <<>>
    THEN Done(r, rv, v)
    ELSE [r EXCEPT !.pc = Head(r.stack), !.stack = Tail(r.stack),
                   !.result = rv, !.val = v]

\* an exception nobody catches: it unwinds the whole call
Raise(r) == Done(r, "Raised", NoValue)

\* the same for an exception of the given class
RaiseAs(r, exc) == Done(r, exc, NoValue)

\* call of a method: remember where the caller goes on
Push(r, back) == [r EXCEPT !.stack = <<back>> \o r.stack]

\* the frame of a top-level call
Fresh(opname) == [IdleThread EXCEPT !.op = opname]

Truthy(ch) == ch /= NoChannel /\ ch /= 0

NextSeq(s) == IF s < SeqMax THEN s + 1 ELSE 0

\* GatewayScanner.__init__ and the class attributes of GatewayScanner
IdleScan ==
    [pc |-> "idle", receiver |-> "none", broadcaster |-> "none",
     timer |-> FALSE, sent |-> FALSE, dgram |-> <<>>, ip |-> <<>>,
     port |-> <<>>, result |-> "-"]

\* no object of the codec built yet
IdleCodec == [pc |-> "idle", kind |-> "-", m |-> <<>>, body |-> <<>>,
              res |-> <<>>]

\* the keepalive thread in time.sleep(60)
IdleBeat == [pc |-> "sleep", retry |-> 0, res |-> FALSE, frame |-> <<>>,
             was |-> 0, checks |-> 0]

\* socket.socket(socket.AF_INET, socket.SOCK_DGRAM): nothing received yet
NewSocket == [buf |-> <<>>, pend |-> 0]

\* no telegram received by a KNXIPTunnel object yet
NoTunnels == [reg |-> {}, at |-> "-", addr |-> 0]

Init ==
    /\ cacheKind \in {"default", "custom"}
    /\ remote_ip \in {"0.0.0.0", "gw"}
    /\ connected = FALSE
    /\ channel = NoChannel
    /\ seq = 0
    /\ data_server = FALSE
    /\ control_socket = FALSE
    /\ values = EmptyCache
    /\ ack_semaphore = 0
    /\ result_queue = <<>>
    /\ th = [t \in Clients |-> IdleThread]
    /\ toGw = EmptyBag
    /\ discPending = FALSE
    /\ out = <<>>
    /\ rcv = <<>>
    /\ seen = EmptyCache
    /\ ops = 0
    /\ bus = 0
    /\ address_listeners = <<>>
    /\ notify = FALSE
    /\ calls = <<>>
    /\ hth = <<>>
    /\ scan = IdleScan
    /\ codec = IdleCodec
    /\ queued = <<>>
    /\ connection_state = 0
    /\ beat = IdleBeat
    /\ ctl = NewSocket
    /\ tunnels = NoTunnels

(***************************************************************************)
(* KNXIPTunnel.connect, run by thread t whose record is r, up to and       *)
(* including the sendto of the CONNECT_REQUEST.                            *)
(***************************************************************************)
\* if self.connected: ... return True
AlreadyConnectedIgnored == FALSE
AlreadyConnected == connected

connect(t, r) ==
    /\ UNCHANGED <<cacheKind, ext, connected, channel, seq, ack_semaphore,
                   result_queue, toGw, discPending, bus>>
    /\ IF AlreadyConnected
       THEN \* already connected: return True
            /\ th' = [th EXCEPT ![t] = Return(r, "True", NoValue)]
            /\ out' = <<>>
            /\ rcv' = <<>>
            /\ UNCHANGED <<remote_ip, data_server, control_socket, values,
                           seen, ctl>>
       ELSE \E found \in BOOLEAN :
            \* GatewayScanner.start_search(): (ip, port) or None
            /\ found => remote_ip = "0.0.0.0"
            /\ remote_ip' = IF found THEN "gw" ELSE remote_ip
            /\ seen' = EmptyCache
            /\ IF cacheKind = "default"
               THEN \* ValueCache has no clear(): AttributeError
                    /\ th' = [th EXCEPT ![t] = Raise(r)]
                    /\ out' = <<>>
                    /\ rcv' = <<>>
                    /\ UNCHANGED <<data_server, control_socket, values,
                                   ctl>>
               ELSE /\ values' = CacheClear(values)
                    /\ data_server' = TRUE
                    /\ control_socket' = TRUE
                    /\ ctl' = NewSocket
                    /\ out' = <<ConnectRequest>>
                    /\ rcv' = <<>>
                    /\ th' = [th EXCEPT ![t] =
                                 [r EXCEPT !.pc = "c_recv", !.creq = @ + 1]]

(***************************************************************************)
(* KNXIPTunnel.connect from control_socket.recv on.  The gateway answers   *)
(* with a CONNECT_RESPONSE, with another frame, or not at all.             *)
(***************************************************************************)
ConnectTimeout(t) ==
    /\ th[t].pc = "c_recv"
    /\ control_socket' = FALSE
    /\ th' = [th EXCEPT ![t] = Return(@, "False", NoValue)]
    /\ out' = <<>>
    /\ rcv' = <<"TIMEOUT">>
    /\ UNCHANGED <<cacheKind, ext, ctl, remote_ip, seen, connected, channel, seq,
                   data_server, values, ack_semaphore, result_queue, toGw,
                   discPending, ops, bus>>

\* the status byte of the response is not looked at
ConnectResponseAnyStatus(t, ch, status) ==
    /\ th[t].pc = "c_recv"
    /\ channel' = ch
    /\ connected' = TRUE
    /\ th' = [th EXCEPT ![t] = Return(@, "True", NoValue)]
    /\ out' = <<>>
    /\ rcv' = <<"CONNECT_RESPONSE", ch, status>>
    /\ UNCHANGED <<cacheKind, ext, ctl, remote_ip, seen, seq, data_server,
                   control_socket, values, ack_semaphore, result_queue,
                   toGw, discPending, ops, bus>>

ConnectResponse(t, ch, status) ==
    /\ th[t].pc = "c_recv"
    /\ channel' = ch
    /\ IF status = 0
       THEN /\ connected' = TRUE
            /\ th' = [th EXCEPT ![t] = Return(@, "True", NoValue)]
       ELSE /\ connected' = connected
            /\ th' = [th EXCEPT ![t] = Return(@, "False", NoValue)]
    /\ out' = <<>>
    /\ rcv' = <<"CONNECT_RESPONSE", ch, status>>
    /\ UNCHANGED <<cacheKind, ext, ctl, remote_ip, seen, seq, data_server, control_socket,
                   values, ack_semaphore, result_queue, toGw, discPending, ops, bus>>

ConnectOtherFrame(t) ==
    /\ th[t].pc = "c_recv"
    /\ th' = [th EXCEPT ![t] = Return(@, "False", NoValue)]
    /\ out' = <<>>
    /\ rcv' = <<"OTHER">>
    /\ UNCHANGED <<cacheKind, ext, ctl, remote_ip, shared, seen, toGw, discPending,
                   ops, bus>>

(***************************************************************************)
(* KNXIPTunnel.disconnect, run by thread t whose record is r.              *)
(***************************************************************************)
disconnect(t, r) ==
    /\ UNCHANGED <<cacheKind, ext, ctl, remote_ip, seen, channel, data_server,
                   control_socket, values, ack_semaphore, result_queue,
                   toGw, bus>>
    /\ IF Truthy(channel)
       THEN IF ~control_socket
            THEN \* hpai_body: None.getsockname() -> AttributeError
                 /\ th' = [th EXCEPT ![t] = Raise(r)]
                 /\ out' = <<>>
                 /\ rcv' = <<>>
                 /\ UNCHANGED <<seq, connected, discPending>>
            ELSE /\ seq' = NextSeq(seq)
                 /\ out' = <<DisconnectRequest(channel)>>
                 /\ rcv' = <<>>
                 /\ discPending' = TRUE
                 /\ connected' = FALSE
                 /\ th' = [th EXCEPT ![t] =
                              Return([r EXCEPT !.dreq = @ + 1],
                                     "None", NoValue)]
       ELSE /\ connected' = FALSE
            /\ out' = <<>>
            /\ rcv' = <<>>
            /\ th' = [th EXCEPT ![t] = Return(r, "None", NoValue)]
            /\ UNCHANGED <<seq, discPending>>

(***************************************************************************)
(* KNXIPTunnel.send_tunnelling_request.                                    *)
(***************************************************************************)
\* body = [0x04, self.channel, self.seq, 0x00]; if self.seq < 0xff
BuildBody(r) ==
    [r EXCEPT !.pc = "s_add", !.fch = channel, !.fsq = seq,
              !.lt = (seq < SeqMax)]

send_tunnelling_request(t, r) ==
    IF ~data_server
    THEN IF r.auto
         THEN connect(t, Push([r EXCEPT !.ac = @ + 1], "s_build"))
         ELSE \* raise KNXException("KNX tunnel not connected")
              /\ th' = [th EXCEPT ![t] = RaiseAs(r, "KNXException")]
              /\ out' = <<>>
              /\ rcv' = <<>>
              /\ UNCHANGED <<cacheKind, ext, ctl, remote_ip, shared, seen, toGw, discPending, bus>>
    ELSE /\ th' = [th EXCEPT ![t] = BuildBody(r)]
         /\ out' = <<>>
         /\ rcv' = <<>>
         /\ UNCHANGED <<cacheKind, ext, ctl, remote_ip, shared, seen, toGw, discPending, bus>>

\* the connect() of the auto-connect has returned
SendBuild(t) ==
    /\ th[t].pc = "s_build"
    /\ th' = [th EXCEPT ![t] = BuildBody(@)]
    /\ out' = <<>>
    /\ rcv' = <<>>
    /\ UNCHANGED <<cacheKind, ext, ctl, remote_ip, shared, seen, toGw, discPending,
                   ops, bus>>

\* frame.to_frame() is bytearray(header + body): every element a byte
Encodable(r) == r.fch /= NoChannel /\ r.fsq \in 0..255

RequestOf(r) == TunnelingRequest(r.fch, r.fsq, r.cmd, r.addr, r.data)

\* self.seq += 1 / self.seq = 0, then the first sendto
SendTransmit(t) ==
    /\ th[t].pc = "s_add"
    /\ seq' = IF th[t].lt THEN seq + 1 ELSE 0
    /\ UNCHANGED <<cacheKind, ext, ctl, remote_ip, seen, connected, channel, data_server,
                   control_socket, values, ack_semaphore, result_queue,
                   discPending, ops, bus>>
    /\ IF data_server /\ Encodable(th[t])
       THEN /\ toGw' = toGw (+) SetToBag({th[t].fsq})
            /\ out' = <<RequestOf(th[t])>>
            /\ rcv' = <<>>
            /\ th' = [th EXCEPT ![t].pc = "s_wait1", ![t].tx = @ + 1]
       ELSE \* data_server is None, channel is None or seq is no byte
            /\ th' = [th EXCEPT ![t] = Raise(@)]
            /\ out' = <<>>
            /\ rcv' = <<>>
            /\ UNCHANGED toGw

\* ack_semaphore.acquire(blocking=True, timeout=1) returns True
SendAcked(t) ==
    /\ th[t].pc \in {"s_wait1", "s_wait2"}
    /\ ack_semaphore > 0
    /\ ack_semaphore' = ack_semaphore - 1
    /\ th' = [th EXCEPT ![t] = Return(@, "True", NoValue)]
    /\ out' = <<>>
    /\ rcv' = <<>>
    /\ UNCHANGED <<cacheKind, ext, ctl, remote_ip, seen, connected, channel, seq,
                   data_server, control_socket, values, result_queue, toGw,
                   discPending, ops, bus>>

\* first acquire timed out: the frame is sent again
SendRetransmit(t) ==
    /\ th[t].pc = "s_wait1"
    /\ ack_semaphore = 0
    /\ UNCHANGED <<cacheKind, ext, ctl, remote_ip, shared, seen, discPending, ops,
                   bus>>
    /\ IF data_server
       THEN /\ toGw' = toGw (+) SetToBag({th[t].fsq})
            /\ out' = <<RequestOf(th[t])>>
            /\ rcv' = <<>>
            /\ th' = [th EXCEPT ![t].pc = "s_wait2", ![t].tx = @ + 1]
       ELSE /\ th' = [th EXCEPT ![t] = Raise(@)]
            /\ out' = <<>>
            /\ rcv' = <<>>
            /\ UNCHANGED toGw

\* second acquire timed out: self.disconnect()
SendGiveUp(t) ==
    /\ th[t].pc = "s_wait2"
    /\ ack_semaphore = 0
    /\ ops' = ops
    /\ disconnect(t, Push([th[t] EXCEPT !.nd = @ + 1], "s_reconn"))

\* self.connect() after the disconnect
SendReconnect(t) ==
    /\ th[t].pc = "s_reconn"
    /\ ops' = ops
    /\ connect(t, Push([th[t] EXCEPT !.nc = @ + 1], "s_ret"))

\* return res, which is False here
SendFailed(t) ==
    /\ th[t].pc = "s_ret"
    /\ th' = [th EXCEPT ![t] = Return(@, "False", NoValue)]
    /\ out' = <<>>
    /\ rcv' = <<>>
    /\ UNCHANGED <<cacheKind, ext, ctl, remote_ip, shared, seen, toGw, discPending,
                   ops, bus>>

\* the send of a group_read
SendNested(t) ==
    /\ th[t].pc = "s_entry"
    /\ ops' = ops
    /\ send_tunnelling_request(t, th[t])

(***************************************************************************)
(* KNXIPTunnel.group_read.                                                 *)
(***************************************************************************)
group_read(t, r) ==
    /\ out' = <<>>
    /\ rcv' = <<>>
    /\ UNCHANGED <<cacheKind, address_listeners, notify, calls, hth, aux,
                   remote_ip, seen, connected, channel, seq,
                   data_server, control_socket, values, ack_semaphore,
                   toGw, discPending, bus>>
    /\ IF r.uc /\ CacheGet(values, r.addr) /= NoValue
       THEN /\ th' = [th EXCEPT ![t] =
                         ReturnVal(r, "Value", CacheGet(values, r.addr))]
            /\ UNCHANGED <<result_queue, queued>>
       ELSE /\ result_queue' = <<>>
            /\ queued' = <<>>
            /\ th' = [th EXCEPT ![t] = Push([r EXCEPT !.pc = "s_entry"],
                                            "r_wait")]

\* result_queue.get(block=True, timeout=timeout)
ReadResult(t) ==
    /\ th[t].pc = "r_wait"
    /\ result_queue /= <<>>
    /\ result_queue' = Tail(result_queue)
    /\ queued' = Tail(queued)
    /\ th' = [th EXCEPT ![t] = ReturnVal(@, "Value", Head(result_queue))]
    /\ out' = <<>>
    /\ rcv' = <<>>
    /\ UNCHANGED <<cacheKind, address_listeners, notify, calls, hth, aux,
                   remote_ip, seen, connected, channel, seq,
                   data_server, control_socket, values, ack_semaphore,
                   toGw, discPending, ops, bus>>

ReadTimeout(t) ==
    /\ th[t].pc = "r_wait"
    /\ result_queue = <<>>
    /\ th' = [th EXCEPT ![t] = ReturnVal(@, "None", NoValue)]
    /\ out' = <<>>
    /\ rcv' = <<>>
    /\ UNCHANGED <<cacheKind, ext, ctl, remote_ip, shared, seen, toGw, discPending,
                   ops, bus>>

(***************************************************************************)
(* KNXIPTunnel.group_toggle: data = self.group_read(addr, use_cache) is    *)
(* the call of group_read with the return label "t_check"; then the        *)
(* checks of data and the group_write.                                     *)
(***************************************************************************)
\* group_write(addr, data): init_group_write and send_tunnelling_request
group_write(t, r, data) ==
    send_tunnelling_request(t,
        Push([r EXCEPT !.cmd = "GROUP_WRITE", !.data = data, !.auto = TRUE],
             "w_ret"))

ToggleFails(t, exc) ==
    /\ th' = [th EXCEPT ![t] = RaiseAs(@, exc)]
    /\ out' = <<>>
    /\ rcv' = <<>>
    /\ UNCHANGED <<cacheKind, ext, ctl, remote_ip, shared, seen, toGw, discPending,
                   bus>>

ToggleCheck(t) ==
    /\ th[t].pc = "t_check"
    /\ ops' = ops
    /\ IF th[t].result = "None"
       THEN \* len(None)
            ToggleFails(t, "TypeError")
       ELSE IF Len(th[t].val) /= 1
       THEN ToggleFails(t, "KNXException")
       ELSE IF th[t].val[1] = 0
       THEN group_write(t, th[t], <<1>>)
       ELSE IF th[t].val[1] = 1
       THEN group_write(t, th[t], <<0>>)
       ELSE ToggleFails(t, "KNXException")

\* group_write and group_toggle return None after the send
WriteReturn(t) ==
    /\ th[t].pc = "w_ret"
    /\ th' = [th EXCEPT ![t] = Return(@, "None", NoValue)]
    /\ out' = <<>>
    /\ rcv' = <<>>
    /\ UNCHANGED <<cacheKind, ext, ctl, remote_ip, shared, seen, toGw, discPending,
                   ops, bus>>

(***************************************************************************)
(* Top-level calls of a client thread.                                     *)
(***************************************************************************)
Start(t) ==
    /\ th[t].pc = "idle"
    /\ ops' = ops + 1

CallConnect(t) == Start(t) /\ connect(t, Fresh("connect"))

CallDisconnect(t) == Start(t) /\ disconnect(t, Fresh("disconnect"))

CallSend(t, auto) ==
    /\ Start(t)
    /\ send_tunnelling_request(t,
           [Fresh("send") EXCEPT !.auto = auto, !.cmd = "GROUP_WRITE",
                                 !.addr = 1, !.data = <<1>>])

CallRead(t, a, use_cache) ==
    /\ Start(t)
    /\ group_read(t, [Fresh("read") EXCEPT !.uc = use_cache,
                         !.cmd = "GROUP_READ", !.addr = a, !.data = <<0>>])

CallToggle(t, a, use_cache) ==
    /\ Start(t)
    /\ group_read(t, Push([Fresh("toggle") EXCEPT !.uc = use_cache,
                              !.cmd = "GROUP_READ", !.addr = a,
                              !.data = <<0>>], "t_check"))

(***************************************************************************)
(* KNXIPTunnel.register_listener / unregister_listener, and the            *)
(* application setting tunnel.notify.  Each runs without blocking.         *)
(***************************************************************************)
\* try: listeners = self.address_listeners[address]
\* except KeyError: listeners = []
Listeners(al, address) == IF address \in DOMAIN al THEN al[address] ELSE <<>>

IsIn(func, listeners) == \E i \in DOMAIN listeners : listeners[i] = func

\* listeners.remove(func): the first occurrence goes
Remove(listeners, func) ==
    LET i == CHOOSE k \in DOMAIN listeners :
                 /\ listeners[k] = func
                 /\ \A j \in 1..(k - 1) : listeners[j] /= func
    IN  SubSeq(listeners, 1, i - 1) \o SubSeq(listeners, i + 1, Len(listeners))

Register(al, address, func) ==
    LET listeners == Listeners(al, address)
    IN  (address :> IF IsIn(func, listeners) THEN listeners
                    ELSE Append(listeners, func)) @@ al

register_listener(t, address, func) ==
    /\ Start(t)
    /\ address_listeners' = Register(address_listeners, address, func)
    /\ th' = [th EXCEPT ![t] = Done(Fresh("register"), "True", NoValue)]
    /\ out' = <<>>
    /\ rcv' = <<>>
    /\ UNCHANGED <<cacheKind, remote_ip, shared, seen, toGw, discPending,
                   bus, notify, calls, hth, aux, queued>>

unregister_listener(t, address, func) ==
    /\ Start(t)
    /\ out' = <<>>
    /\ rcv' = <<>>
    /\ UNCHANGED <<cacheKind, remote_ip, shared, seen, toGw, discPending,
                   bus, notify, calls, hth, aux, queued>>
    /\ IF address \notin DOMAIN address_listeners
       THEN \* self.address_listeners[address]
            /\ th' = [th EXCEPT ![t] = RaiseAs(Fresh("unregister"),
                                               "KeyError")]
            /\ UNCHANGED address_listeners
       ELSE IF IsIn(func, address_listeners[address])
       THEN /\ address_listeners' =
                   [address_listeners EXCEPT
                       ![address] = Remove(@, func)]
            /\ th' = [th EXCEPT ![t] =
                         Done(Fresh("unregister"), "True", NoValue)]
       ELSE /\ th' = [th EXCEPT ![t] =
                         Done(Fresh("unregister"), "False", NoValue)]
            /\ UNCHANGED address_listeners

\* tunnel.notify = func
SetNotify ==
    /\ ~notify
    /\ notify' = TRUE
    /\ out' = <<>>
    /\ rcv' = <<>>
    /\ UNCHANGED <<cacheKind, remote_ip, shared, seen, toGw, discPending,
                   bus, ops, th, address_listeners, calls, hth, aux,
                   queued>>

(***************************************************************************)
(* DataRequestHandler.handle.  The gateway puts a datagram on the data     *)
(* endpoint and a handler thread of the data server processes it; without  *)
(* a data server the datagram is lost.                                     *)
(***************************************************************************)
\* KNXIPTunnel.received_message: the cache part
received_message(vals, address, data) == CacheSet(vals, address, data)

\* the callbacks received_message invokes for a telegram to address, in
\* the order of their invocation
Callbacks(address) ==
    (IF notify THEN <<"notify">> ELSE <<>>)
        \o Listeners(address_listeners, address)

Raises(cbs, bad) == \E i \in DOMAIN cbs : cbs[i] \in bad

\* the callbacks that are entered when those of bad raise: the exception
\* of the first of them ends received_message
Invoked(cbs, bad) ==
    IF Raises(cbs, bad)
    THEN SubSeq(cbs, 1,
                CHOOSE i \in DOMAIN cbs :
                    /\ cbs[i] \in bad
                    /\ \A j \in 1..(i - 1) : cbs[j] \notin bad)
    ELSE cbs

IsGroupPayload(f) == f[4] \in {"GROUP_WRITE", "GROUP_RESPONSE"}

\* what is remembered of the GROUP_RESPONSE f whose payload is queued: its
\* destination and, where the time of arrival is observed, whether a
\* group_read had transmitted its request before
Origin(f, timed) ==
    [addr |-> f[5],
     sent |-> IF ~timed THEN "-"
              ELSE IF \E t \in Clients :
                        th[t].cmd = "GROUP_READ" /\ th[t].tx >= 1
              THEN "after"
              ELSE "before"]

\* f = <<channel, sequence, cEMI code, command, destination, data>>;
\* bad = the callbacks that raise when they are invoked for f
Dispatch(f, bad, timed) ==
    /\ bus < MaxBus
    /\ data_server
    /\ bus' = bus + 1
    /\ UNCHANGED <<cacheKind, address_listeners, notify, hth, aux,
                   remote_ip, connected, channel, seq, data_server,
                   control_socket, ack_semaphore, th, toGw, discPending,
                   ops>>
    /\ rcv' = <<"TUNNELING_REQUEST", f>>
    /\ IF f[3] \in {L_DATA_IND, L_DATA_CON}
       THEN LET cbs == IF IsGroupPayload(f) THEN Callbacks(f[5]) ELSE <<>>
            IN  /\ values' = IF IsGroupPayload(f)
                             THEN received_message(values, f[5], f[6])
                             ELSE values
                /\ seen' = IF IsGroupPayload(f)
                           THEN [seen EXCEPT ![f[5]] = f[6]] ELSE seen
                /\ calls' = Invoked(cbs, bad)
                /\ IF Raises(cbs, bad)
                   THEN \* the exception leaves handle()
                        /\ out' = <<>>
                        /\ UNCHANGED <<result_queue, queued>>
                   ELSE /\ result_queue' = IF f[4] = "GROUP_RESPONSE"
                                           THEN Append(result_queue, f[6])
                                           ELSE result_queue
                        /\ queued' = IF f[4] = "GROUP_RESPONSE"
                                     THEN Append(queued, Origin(f, timed))
                                     ELSE queued
                        /\ out' = <<TunnellingAck(f[1], f[2])>>
       ELSE \* raise KNXException("Unimplemented cEMI message code")
            /\ out' = <<>>
            /\ calls' = <<>>
            /\ UNCHANGED <<values, result_queue, queued, seen>>

HandleTunnelingRequest(f, bad) == Dispatch(f, bad, FALSE)

\* the same, with the time of arrival of a GROUP_RESPONSE observed
HandleTimedRequest(f) == Dispatch(f, {}, TRUE)

(***************************************************************************)
(* The same handler at the granularity of its accesses to the tunnel:      *)
(* DataServer is a ThreadingMixIn server, so every datagram is handled by  *)
(* a thread of its own and the handlers of two datagrams interleave.       *)
(***************************************************************************)
\* a datagram arrives and process_request starts its handler thread
HandlerStart(f) ==
    /\ bus < MaxBus
    /\ data_server
    /\ bus' = bus + 1
    /\ hth' = Append(hth, [f |-> f, pc |-> "cache"])
    /\ rcv' = <<"TUNNELING_REQUEST", f>>
    /\ out' = <<>>
    /\ UNCHANGED <<cacheKind, remote_ip, shared, seen, toGw, discPending,
                   ops, th, address_listeners, notify, calls, aux,
                   queued>>

\* received_message: self.value_cache.set(address, data)
HandlerCache(i) ==
    /\ hth[i].pc = "cache"
    /\ LET f == hth[i].f
       IN  /\ values' = IF IsGroupPayload(f)
                         THEN received_message(values, f[5], f[6])
                         ELSE values
           /\ seen' = IF IsGroupPayload(f)
                      THEN [seen EXCEPT ![f[5]] = f[6]] ELSE seen
    /\ hth' = [hth EXCEPT ![i].pc = "notify"]
    /\ out' = <<>>
    /\ rcv' = <<>>
    /\ UNCHANGED <<cacheKind, remote_ip, connected, channel, seq,
                   data_server, control_socket, ack_semaphore, result_queue,
                   toGw, discPending, ops, bus, th, address_listeners,
                   notify, calls, aux, queued>>

\* received_message from self.notify on, result_queue.put and the ack
HandlerNotify(i, bad) ==
    /\ hth[i].pc = "notify"
    /\ LET f == hth[i].f
           cbs == IF IsGroupPayload(f) THEN Callbacks(f[5]) ELSE <<>>
       IN  /\ calls' = Invoked(cbs, bad)
           /\ IF Raises(cbs, bad)
              THEN /\ out' = <<>>
                   /\ UNCHANGED <<result_queue, queued>>
              ELSE /\ result_queue' = IF f[4] = "GROUP_RESPONSE"
                                      THEN Append(result_queue, f[6])
                                      ELSE result_queue
                   /\ queued' = IF f[4] = "GROUP_RESPONSE"
                                THEN Append(queued, Origin(f, FALSE))
                                ELSE queued
                   /\ out' = <<TunnellingAck(f[1], f[2])>>
    /\ hth' = [hth EXCEPT ![i].pc = "done"]
    /\ rcv' = <<>>
    /\ UNCHANGED <<cacheKind, remote_ip, connected, channel, seq,
                   data_server, control_socket, values, ack_semaphore, seen,
                   toGw, discPending, ops, bus, th, address_listeners,
                   notify, aux>>

\* TUNNELLING_ACK for a request the gateway received
HandleAck(sq) ==
    /\ BagIn(sq, toGw)
    /\ toGw' = toGw (-) SetToBag({sq})
    /\ ack_semaphore' = IF data_server THEN ack_semaphore + 1
                                       ELSE ack_semaphore
    /\ out' = <<>>
    /\ rcv' = <<"TUNNELLING_ACK", sq>>
    /\ UNCHANGED <<cacheKind, ext, ctl, remote_ip, seen, connected, channel, seq,
                   data_server, control_socket, values, result_queue, th,
                   discPending, ops, bus>>

\* DISCONNECT_RESPONSE on the data endpoint:
\* tunnel.data_server.shutdown(); tunnel.data_server = None
HandleDisconnectResponse ==
    /\ discPending
    /\ data_server
    /\ discPending' = FALSE
    /\ data_server' = FALSE
    /\ out' = <<>>
    /\ rcv' = <<"DISCONNECT_RESPONSE">>
    /\ UNCHANGED <<cacheKind, ext, ctl, remote_ip, seen, connected, channel, seq,
                   control_socket, values, ack_semaphore, result_queue, th,
                   toGw, ops, bus>>

\* the TUNNELING_REQUESTs the gateway sends
BusFrames ==
    {<<1, 0, L_DATA_IND, "GROUP_WRITE", a, v>> : a \in Addrs, v \in Payloads}
    \cup {<<1, 0, L_DATA_IND, "GROUP_RESPONSE", 1, v>> : v \in Payloads}
    \cup {<<1, 0, L_DATA_IND, "GROUP_READ", 1, <<0>>>>,
          <<1, 1, L_DATA_CON, "GROUP_WRITE", 1, <<1>>>>,
          <<1, 0, L_DATA_REQ, "GROUP_WRITE", 1, <<1>>>>}

(***************************************************************************)
(* Specifications.                                                         *)
(*   Spec      one client thread that connects, disconnects and sends,     *)
(*             the gateway's acknowledgements and DISCONNECT_RESPONSE      *)
(*   SpecRead  one client thread that connects, sends and reads, and the   *)
(*             telegrams of the bus                                        *)
(*   SpecRace  two client threads                                          *)
(***************************************************************************)
ProgressOn(t, chans) ==
    \/ ConnectTimeout(t)
    \/ \E ch \in chans, st \in GwStatus : ConnectResponse(t, ch, st)
    \/ ConnectOtherFrame(t)
    \/ SendBuild(t)
    \/ SendTransmit(t)
    \/ SendAcked(t)
    \/ SendRetransmit(t)
    \/ SendGiveUp(t)
    \/ SendReconnect(t)
    \/ SendFailed(t)

Progress(t) == ProgressOn(t, GwChannels)

Next ==
    \/ ops < MaxOps /\ CallConnect("c1")
    \/ ops < MaxOps /\ CallDisconnect("c1")
    \/ ops < MaxOps /\ \E auto \in BOOLEAN : CallSend("c1", auto)
    \/ Progress("c1")
    \/ \E sq \in BagToSet(toGw) : HandleAck(sq)
    \/ HandleDisconnectResponse

Spec == Init /\ [][Next]_vars

\* the gateway of SpecRead and SpecRace assigns channel 1
NextRead ==
    \/ ops < MaxReadOps /\ CallConnect("c1")
    \/ ops < MaxReadOps /\ \E a \in Addrs, uc \in BOOLEAN :
                               CallRead("c1", a, uc)
    \/ SendNested("c1")
    \/ ReadResult("c1")
    \/ ReadTimeout("c1")
    \/ ProgressOn("c1", {1})
    \/ \E sq \in BagToSet(toGw) : HandleAck(sq)
    \/ \E f \in BusFrames : HandleTunnelingRequest(f, {})

InitRead == Init /\ cacheKind = "custom" /\ remote_ip = "gw"

SpecRead == InitRead /\ [][NextRead]_vars

NextRace ==
    \/ ops < MaxRaceOps /\ \E t \in Clients : CallSend(t, TRUE)
    \/ \E t \in Clients : ProgressOn(t, {1})
    \/ \E sq \in BagToSet(toGw) : HandleAck(sq)

SpecRace == InitRead /\ [][NextRace]_vars

\* the GROUP_RESPONSEs of SpecReply
ReplyFrames ==
    {<<1, 0, L_DATA_IND, "GROUP_RESPONSE", a, <<1>>>> : a \in Addrs}

NextReply ==
    \/ ops < MaxReadOps /\ CallConnect("c1")
    \/ ops < MaxReadOps /\ \E a \in Addrs, uc \in BOOLEAN :
                               CallRead("c1", a, uc)
    \/ SendNested("c1")
    \/ ReadResult("c1")
    \/ ReadTimeout("c1")
    \/ ProgressOn("c1", {1})
    \/ \E sq \in BagToSet(toGw) : HandleAck(sq)
    \/ \E f \in ReplyFrames : HandleTimedRequest(f)

SpecReply == InitRead /\ [][NextReply]_vars

\* the group telegrams the listeners are notified of
ListenFrames ==
    {<<1, 0, L_DATA_IND, cmd, a, <<1>>>> :
        cmd \in {"GROUP_WRITE", "GROUP_RESPONSE"}, a \in Addrs}

CallbackNames == Funcs \cup {"notify"}

NextListen ==
    \/ ops < MaxListenOps /\ CallConnect("c1")
    \/ ops < MaxListenOps /\ \E a \in Addrs, func \in Funcs :
                                 register_listener("c1", a, func)
    \/ ops < MaxListenOps /\ \E a \in Addrs, func \in Funcs :
                                 unregister_listener("c1", a, func)
    \/ SetNotify
    \/ ConnectTimeout("c1")
    \/ ConnectResponse("c1", 1, 0)
    \/ \E f \in ListenFrames, bad \in SUBSET CallbackNames :
           HandleTunnelingRequest(f, bad)

SpecListen == InitRead /\ [][NextListen]_vars

\* the group telegrams of SpecDispatch
DispatchFrames ==
    {<<1, 0, L_DATA_IND, "GROUP_WRITE", a, v>> : a \in Addrs, v \in Payloads}

NextDispatch ==
    \/ ops < MaxListenOps /\ CallConnect("c1")
    \/ ops < MaxListenOps /\ \E a \in Addrs, func \in Funcs :
                                 register_listener("c1", a, func)
    \/ SetNotify
    \/ ConnectTimeout("c1")
    \/ ConnectResponse("c1", 1, 0)
    \/ \E f \in DispatchFrames : HandlerStart(f)
    \/ \E i \in DOMAIN hth : HandlerCache(i)
    \/ \E i \in DOMAIN hth, bad \in SUBSET CallbackNames :
           HandlerNotify(i, bad)

SpecDispatch == InitRead /\ [][NextDispatch]_vars

(***************************************************************************)
(* The heartbeat: KNXIPTunnel.keepalive, the daemon thread __init__        *)
(* starts, and check_connection_state.  The thread runs beside the client  *)
(* calls and takes no lock; it is interleaved wherever it tests connected, *)
(* calls sendto or blocks in recv.                                         *)
(***************************************************************************)
ConnectionStateRequest(ch) ==
    Frame("CONNECTIONSTATE_REQUEST", ch, 0, 0, "-", 0, <<>>)

\* body = [channel, status]: code holds the status byte
ConnectionStateResponse(ch, status) ==
    Frame("CONNECTIONSTATE_RESPONSE", ch, 0, status, "-", 0, <<>>)

\* the DISCONNECT_RESPONSE, when it is read by the heartbeat
OtherResponse(ch) == Frame("DISCONNECT_RESPONSE", ch, 0, 0, "-", 0, <<>>)

BeatStatus == {0, 33}         \* E_NO_ERROR, E_CONNECTION_ID

BeatUnchanged ==
    UNCHANGED <<cacheKind, remote_ip, channel, data_server, control_socket,
                values, ack_semaphore, result_queue, th, toGw, seen, ops,
                bus, address_listeners, notify, calls, hth, scan, codec,
                queued, tunnels>>

\* keepalive: time.sleep(60) returns and self.connected is true; a tunnel
\* that is not connected is not checked.  bounded: the checks are counted
\* up to MaxChecks and no more is started
KeepaliveWake(bounded) ==
    /\ beat.pc = "sleep"
    /\ connected
    /\ bounded => beat.checks < MaxChecks
    /\ beat' = [beat EXCEPT !.pc = "enter",
                            !.checks = IF @ < MaxChecks THEN @ + 1 ELSE @]
    /\ out' = <<>>
    /\ rcv' = <<>>
    /\ UNCHANGED <<connected, seq, discPending, connection_state, ctl>>
    /\ BeatUnchanged

\* self.connection_state = 0, before the loop
StateAtStartKept(cs) == cs
StateAtStart(cs) == 0

\* check_connection_state up to the loop
CheckEnter ==
    /\ beat.pc = "enter"
    /\ out' = <<>>
    /\ rcv' = <<>>
    /\ UNCHANGED <<connected, seq, discPending, ctl>>
    /\ BeatUnchanged
    /\ IF ~connected
       THEN \* self.connection_state = -1; return False
            /\ connection_state' = -1
            /\ beat' = [beat EXCEPT !.pc = "sleep"]
       ELSE IF ~control_socket
       THEN \* hpai_body: None.getsockname() ends the thread
            /\ beat' = [beat EXCEPT !.pc = "dead"]
            /\ UNCHANGED connection_state
       ELSE /\ connection_state' = StateAtStart(connection_state)
            /\ beat' = [beat EXCEPT
                           !.pc = "send", !.retry = 0, !.res = FALSE,
                           !.was = connection_state,
                           !.frame = ConnectionStateRequest(channel)]

\* one iteration of the loop up to recv: settimeout and the two sendto of
\* frame; of the CONNECTIONSTATE_REQUESTs on their way to the gateway, no
\* more than MaxCtl are kept
BeatSend ==
    /\ beat.pc = "send"
    /\ rcv' = <<>>
    /\ UNCHANGED <<connected, seq, discPending, connection_state>>
    /\ BeatUnchanged
    /\ IF ~control_socket
       THEN \* None.settimeout ends the thread
            /\ beat' = [beat EXCEPT !.pc = "dead"]
            /\ out' = <<>>
            /\ UNCHANGED ctl
       ELSE /\ beat' = [beat EXCEPT !.pc = "recv"]
            /\ out' = <<beat.frame, beat.frame>>
            /\ ctl' = [ctl EXCEPT
                          !.pend = IF beat.frame.svc
                                        /= "CONNECTIONSTATE_REQUEST"
                                   THEN @
                                   ELSE IF @ + 2 > MaxCtl THEN MaxCtl
                                   ELSE @ + 2]

\* except socket.timeout: ... break
BeatTimeout(healthy) ==
    /\ beat.pc = "recv"
    /\ ctl.buf = <<>>
    /\ healthy => ctl.pend = 0
    /\ beat' = [beat EXCEPT !.pc = "after"]
    /\ out' = <<>>
    /\ rcv' = <<"TIMEOUT">>
    /\ UNCHANGED <<connected, seq, discPending, connection_state, ctl>>
    /\ BeatUnchanged

\* receive = self.control_socket.recv(1024); frame = from_frame(receive)
\* and the tests of frame, to the end of the iteration
BeatRecv ==
    /\ beat.pc = "recv"
    /\ ctl.buf /= <<>>
    /\ LET frame == Head(ctl.buf)
       IN  /\ ctl' = [ctl EXCEPT !.buf = Tail(@)]
           /\ rcv' = <<"CONTROL", frame.svc, frame.code>>
           /\ IF frame.svc = "CONNECTIONSTATE_RESPONSE" /\ frame.code = 0
              THEN \* res = True; break
                   beat' = [beat EXCEPT !.pc = "after", !.res = TRUE,
                                        !.frame = frame]
              ELSE IF beat.retry < 2
              THEN beat' = [beat EXCEPT !.pc = "send", !.retry = @ + 1,
                                        !.frame = frame]
              ELSE beat' = [beat EXCEPT !.pc = "after", !.frame = frame]
    /\ out' = <<>>
    /\ UNCHANGED <<connected, seq, discPending, connection_state>>
    /\ BeatUnchanged

\* if self.connection_state != 0: res = False
CheckResult(res, cs) == res /\ cs = 0

\* check_connection_state after the loop, with the disconnect() it calls
BeatAfter ==
    /\ beat.pc = "after"
    /\ rcv' = <<>>
    /\ UNCHANGED ctl
    /\ BeatUnchanged
    /\ IF CheckResult(beat.res, connection_state)
       THEN \* return True
            /\ beat' = [beat EXCEPT !.pc = "sleep"]
            /\ out' = <<>>
            /\ UNCHANGED <<connected, seq, discPending, connection_state>>
       ELSE /\ connection_state' = IF connection_state = 0 THEN -1
                                   ELSE connection_state
            /\ IF Truthy(channel)
               THEN IF ~control_socket
                    THEN /\ beat' = [beat EXCEPT !.pc = "dead"]
                         /\ out' = <<>>
                         /\ UNCHANGED <<connected, seq, discPending>>
                    ELSE /\ seq' = NextSeq(seq)
                         /\ out' = <<DisconnectRequest(channel)>>
                         /\ discPending' = TRUE
                         /\ connected' = FALSE
                         /\ beat' = [beat EXCEPT !.pc = "sleep"]
               ELSE /\ connected' = FALSE
                    /\ out' = <<>>
                    /\ beat' = [beat EXCEPT !.pc = "sleep"]
                    /\ UNCHANGED <<seq, discPending>>

\* the gateway answers a CONNECTIONSTATE_REQUEST; a datagram that finds
\* the receive buffer of the socket full is dropped
GwAnswer(status) ==
    /\ ctl.pend > 0
    /\ ctl' = [ctl EXCEPT
                  !.pend = @ - 1,
                  !.buf = IF Len(@) < MaxCtl
                          THEN Append(@, ConnectionStateResponse(channel,
                                                                 status))
                          ELSE @]
    /\ out' = <<>>
    /\ rcv' = <<>>
    /\ UNCHANGED <<connected, seq, discPending, connection_state, beat>>
    /\ BeatUnchanged

\* the gateway answers the DISCONNECT_REQUEST at the control endpoint its
\* HPAI names
ControlDisconnectResponse ==
    /\ discPending
    /\ control_socket
    /\ Len(ctl.buf) < MaxCtl
    /\ discPending' = FALSE
    /\ ctl' = [ctl EXCEPT !.buf = Append(@, OtherResponse(channel))]
    /\ out' = <<>>
    /\ rcv' = <<>>
    /\ UNCHANGED <<connected, seq, connection_state, beat>>
    /\ BeatUnchanged

\* the application assigns tunnel.connection_state
SetState(v) ==
    /\ connection_state /= v
    /\ connection_state' = v
    /\ out' = <<>>
    /\ rcv' = <<>>
    /\ UNCHANGED <<connected, seq, discPending, beat, ctl>>
    /\ BeatUnchanged

\* DataRequestHandler.handle, CONNECTIONSTATE_RESPONSE branch:
\* tunnel.connection_state = frame.body[2].  The right-hand side is
\* evaluated first; tunnel is a local that only the DISCONNECT_RESPONSE
\* branch binds
HandleConnectionStateResponse(body) ==
    /\ bus < MaxBus
    /\ data_server
    /\ bus' = bus + 1
    /\ hth' = Append(hth, [f |-> <<"CONNECTIONSTATE_RESPONSE", body>>,
                           pc |-> IF Len(body) < 3 THEN "IndexError"
                                  ELSE "UnboundLocalError"])
    /\ rcv' = <<"CONNECTIONSTATE_RESPONSE", body>>
    /\ out' = <<>>
    /\ UNCHANGED <<cacheKind, remote_ip, shared, seen, toGw, discPending,
                   ops, th, address_listeners, notify, calls, scan, codec,
                   queued, connection_state, beat, ctl, tunnels>>

\* bodies of CONNECTIONSTATE_RESPONSE: channel and status, and one with a
\* byte more
StateBodies == {<<1, 0>>, <<1, 33>>, <<1, 33, 0>>}

NextHeartbeat ==
    \/ ops < MaxBeatOps /\ CallConnect("c1")
    \/ ops < MaxBeatOps /\ CallDisconnect("c1")
    \/ ConnectTimeout("c1")
    \/ \E st \in GwStatus : ConnectResponse("c1", 1, st)
    \/ ConnectOtherFrame("c1")
    \/ KeepaliveWake(TRUE)
    \/ CheckEnter
    \/ BeatSend
    \/ BeatTimeout(FALSE)
    \/ BeatRecv
    \/ BeatAfter
    \/ \E st \in BeatStatus : GwAnswer(st)
    \/ ControlDisconnectResponse
    \/ \E body \in StateBodies : HandleConnectionStateResponse(body)

SpecHeartbeat == InitRead /\ [][NextHeartbeat]_vars

\* a gateway that accepts the connection and answers every
\* CONNECTIONSTATE_REQUEST in time with status 0, a client that connects
\* and assigns connection_state, as testKeepAlive does, and never
\* disconnects
NextKeepAlive ==
    \/ ops < MaxBeatOps /\ CallConnect("c1")
    \/ ConnectResponse("c1", 1, 0)
    \/ SetState(1)
    \/ KeepaliveWake(FALSE)
    \/ CheckEnter
    \/ BeatSend
    \/ BeatRecv
    \/ BeatAfter
    \/ GwAnswer(0)

\* the thread of keepalive loops for ever and is scheduled; the gateway
\* answers
KeepAliveFair ==
    /\ WF_vars(KeepaliveWake(FALSE))
    /\ WF_vars(CheckEnter)
    /\ WF_vars(BeatSend)
    /\ WF_vars(BeatRecv)
    /\ WF_vars(BeatAfter)
    /\ WF_vars(GwAnswer(0))

SpecKeepAlive == InitRead /\ [][NextKeepAlive]_vars /\ KeepAliveFair

(***************************************************************************)
(* Several KNXIPTunnel objects in one process.  address_listeners is       *)
(* assigned once, in the class body, and no method rebinds it on self:     *)
(* the dict that self.address_listeners names is the one dict of the       *)
(* class, whichever object self is.                                        *)
(***************************************************************************)
Instances == {"t1", "t2"}

TunnelsUnchanged ==
    UNCHANGED <<cacheKind, remote_ip, shared, seen, toGw, discPending, ops,
                bus, th, out, rcv, notify, hth, scan, codec, queued,
                connection_state, beat, ctl>>

\* i.register_listener(address, func)
RegisterOn(i, address, func) ==
    /\ address_listeners' = Register(address_listeners, address, func)
    /\ tunnels' = [tunnels EXCEPT
                      !.reg = @ \cup {<<i, address, func>>}, !.at = "-"]
    /\ calls' = <<>>
    /\ TunnelsUnchanged

\* i.unregister_listener(address, func), for an address that is a key
UnregisterOn(i, address, func) ==
    /\ address \in DOMAIN address_listeners
    /\ address_listeners' =
           IF IsIn(func, address_listeners[address])
           THEN [address_listeners EXCEPT ![address] = Remove(@, func)]
           ELSE address_listeners
    /\ tunnels' = [tunnels EXCEPT
                      !.reg = @ \ {<<i, address, func>>}, !.at = "-"]
    /\ calls' = <<>>
    /\ TunnelsUnchanged

\* i.received_message(address, data): the listeners that are called
ReceiveOn(i, address) ==
    /\ calls' = Listeners(address_listeners, address)
    /\ tunnels' = [tunnels EXCEPT !.at = i, !.addr = address]
    /\ UNCHANGED address_listeners
    /\ TunnelsUnchanged

NextTunnels ==
    \/ \E i \in Instances, a \in Addrs, f \in Funcs : RegisterOn(i, a, f)
    \/ \E i \in Instances, a \in Addrs, f \in Funcs : UnregisterOn(i, a, f)
    \/ \E i \in Instances, a \in Addrs : ReceiveOn(i, a)

SpecTunnels == InitRead /\ [][NextTunnels]_vars

(***************************************************************************)
(* GatewayScanner (gatewayscanner.py).  start_search creates the receiver  *)
(* endpoint, whose protocol arms the timeout timer, then the broadcaster   *)
(* endpoint, whose connection_made sends the SEARCH_REQUEST, then runs the *)
(* event loop until the receiver's connection_lost stops it.               *)
(***************************************************************************)
\* the SEARCH_RESPONSE with the given control endpoint
SearchResponse(ip4, hi, lo) ==
    <<6, 16, 2, 2, 0, 78, 8, 1, ip4[1], ip4[2], ip4[3], ip4[4], hi, lo>>

\* r[k] of the bytearray
Byte(r, k) == r[k + 1]

\* struct.unpack('!h', ...): a signed 16-bit integer
Unpack(hi, lo) ==
    IF hi * 256 + lo >= 32768 THEN hi * 256 + lo - 65536 ELSE hi * 256 + lo

\* _process_response
ResolvedIp(r) == <<Byte(r, 8), Byte(r, 9), Byte(r, 10), Byte(r, 11)>>
ResolvedPort(r) == Unpack(Byte(r, 12), Byte(r, 13))

ScanUnchanged ==
    UNCHANGED <<cacheKind, remote_ip, shared, seen, toGw, discPending, ops,
                bus, th, out, rcv, address_listeners, notify, calls, hth,
                codec, queued, connection_state, beat, ctl, tunnels>>

\* start_search up to the first run_until_complete
StartSearch ==
    /\ scan.pc = "idle"
    /\ scan' = [scan EXCEPT !.pc = "broadcast", !.receiver = "open",
                            !.timer = TRUE]
    /\ ScanUnchanged

\* the second run_until_complete: connection_made of the broadcaster
CreateBroadcaster ==
    /\ scan.pc = "broadcast"
    /\ scan' = [scan EXCEPT !.pc = "forever", !.broadcaster = "open",
                            !.sent = TRUE]
    /\ ScanUnchanged

\* the timer fires while run_forever runs: timeout() closes the receiver,
\* connection_lost stops the loop, start_search returns
TimeoutInForever ==
    /\ scan.pc = "forever"
    /\ scan.timer
    /\ scan' = [scan EXCEPT !.pc = "returned", !.receiver = "closed",
                            !.timer = FALSE, !.result = "None"]
    /\ ScanUnchanged

\* the timer fires while the broadcaster endpoint is being created: the
\* loop.stop() of connection_lost ends that run_until_complete, which
\* raises RuntimeError if the endpoint is not ready, and otherwise leaves
\* nobody to stop the run_forever that follows
TimeoutBeforeForever ==
    /\ scan.pc = "broadcast"
    /\ scan.timer
    /\ \/ scan' = [scan EXCEPT !.pc = "raised", !.receiver = "closed",
                               !.timer = FALSE, !.result = "RuntimeError"]
       \/ scan' = [scan EXCEPT !.pc = "hung", !.receiver = "closed",
                               !.timer = FALSE, !.broadcaster = "open",
                               !.sent = TRUE]
    /\ ScanUnchanged

\* datagram_received: cancel the timer, _process_response, close; then
\* connection_lost stops the loop and start_search returns the tuple
DatagramReceived(r) ==
    /\ scan.pc = "forever"
    /\ scan.receiver = "open"
    /\ scan.sent
    /\ scan' = [scan EXCEPT !.pc = "returned", !.receiver = "closed",
                            !.timer = FALSE, !.dgram = r,
                            !.ip = ResolvedIp(r),
                            !.port = <<ResolvedPort(r)>>,
                            !.result = "Found"]
    /\ ScanUnchanged

\* the datagrams of the gateways of the network
GatewayIps == {<<192, 168, 1, 241>>, <<10, 0, 0, 1>>, <<172, 16, 254, 2>>}
PortHighBytes == {0, 14, 127, 128, 255}
PortLowBytes == {0, 87, 255}

SearchResponses ==
    {SearchResponse(ip4, hi, lo) :
        ip4 \in GatewayIps, hi \in PortHighBytes, lo \in PortLowBytes}

NextScan ==
    \/ StartSearch
    \/ CreateBroadcaster
    \/ TimeoutInForever
    \/ TimeoutBeforeForever
    \/ \E r \in SearchResponses : DatagramReceived(r)

SpecScan == Init /\ [][NextScan]_vars

(***************************************************************************)
(* CEMIMessage (ip.py): init_group_read, init_group_write, to_body and     *)
(* from_body, on Python lists of integers.                                 *)
(***************************************************************************)
\* x & y of two non-negative integers
RECURSIVE BitAnd(_, _)
BitAnd(x, y) ==
    IF x = 0 \/ y = 0
    THEN 0
    ELSE (x % 2) * (y % 2) + 2 * BitAnd(x \div 2, y \div 2)

\* the class attributes of CEMIMessage
NewCemi ==
    [code |-> 0, ctl1 |-> 0, ctl2 |-> 0, src_addr |-> "None",
     dst_addr |-> "None", cmd |-> "None", tpci_apci |-> 0, mpdu_len |-> 0,
     data |-> <<0>>]

init_group(m, dst_addr) ==
    [m EXCEPT !.code = L_DATA_REQ, !.ctl1 = 188, !.ctl2 = 224,
              !.src_addr = 0, !.dst_addr = dst_addr]

\* data is None iff given is FALSE
init_group_write(m, dst_addr, given, data) ==
    [init_group(m, dst_addr) EXCEPT
        !.tpci_apci = 0 * 256 + 128,
        !.data = IF given THEN data ELSE <<0>>]

init_group_read(m, dst_addr) ==
    [init_group(m, dst_addr) EXCEPT !.tpci_apci = 0, !.data = <<0>>]

\* the condition of to_body under which the payload goes into the APCI byte
PacksIntoApci(data) == Len(data) = 1 /\ BitAnd(data[1], 3) = data[1]

to_body(m) ==
    LET body == <<m.code, 0, m.ctl1, m.ctl2,
                  (m.src_addr \div 256) % 256, m.src_addr % 256,
                  (m.dst_addr \div 256) % 256, m.dst_addr % 256>>
    IN  IF PacksIntoApci(m.data)
        THEN body \o <<1, (m.tpci_apci \div 256) % 256,
                       (m.tpci_apci % 256) + m.data[1]>>
        ELSE body \o <<1 + Len(m.data), (m.tpci_apci \div 256) % 256,
                       m.tpci_apci % 256>> \o m.data

\* the command from_body reads from the APCI
CommandOf(apci) ==
    IF BitAnd(apci, 128) /= 0 THEN "GROUP_WRITE"
    ELSE IF apci = 0 THEN "GROUP_READ"
    ELSE IF BitAnd(apci, 64) /= 0 THEN "GROUP_RESPONSE"
    ELSE "UNKNOWN"

\* the result of from_body: the message, or the exception it raises
from_body(cemi) ==
    IF Len(cemi) < 2 \/ Len(cemi) < 11 + Byte(cemi, 1)
    THEN [exc |-> "IndexError", m |-> NewCemi]
    ELSE
    LET offset == Byte(cemi, 1)
        tpci_apci == Byte(cemi, 9 + offset) * 256 + Byte(cemi, 10 + offset)
        apci == BitAnd(tpci_apci, 1023)
        apdu == SubSeq(cemi, 11 + offset, Len(cemi))
        message ==
            [NewCemi EXCEPT
                !.code = Byte(cemi, 0),
                !.ctl1 = Byte(cemi, 2 + offset),
                !.ctl2 = Byte(cemi, 3 + offset),
                !.src_addr = Byte(cemi, 4 + offset) * 256
                                + Byte(cemi, 5 + offset),
                !.dst_addr = Byte(cemi, 6 + offset) * 256
                                + Byte(cemi, 7 + offset),
                !.mpdu_len = Byte(cemi, 8 + offset),
                !.cmd = CommandOf(apci)]
    IN  IF Len(apdu) /= message.mpdu_len
        THEN [exc |-> "KNXException", m |-> message]
        ELSE IF Len(apdu) = 1
        THEN [exc |-> "-",
              m |-> [message EXCEPT !.data = <<BitAnd(apci, 47)>>]]
        ELSE [exc |-> "-",
              m |-> [message EXCEPT
                        !.data = SubSeq(cemi, 12 + offset, Len(cemi))]]

CodecUnchanged ==
    UNCHANGED <<cacheKind, remote_ip, shared, seen, toGw, discPending, ops,
                bus, th, out, rcv, address_listeners, notify, calls, hth,
                scan, queued, connection_state, beat, ctl, tunnels>>

\* cemi = CEMIMessage(); cemi.init_group_write(dst_addr, data)
BuildGroupWrite(dst_addr, given, data) ==
    /\ codec.pc = "idle"
    /\ codec' = [codec EXCEPT
                    !.pc = "built", !.kind = "write",
                    !.m = init_group_write(NewCemi, dst_addr, given, data)]
    /\ CodecUnchanged

\* cemi = CEMIMessage(); cemi.init_group_read(dst_addr)
BuildGroupRead(dst_addr) ==
    /\ codec.pc = "idle"
    /\ codec' = [codec EXCEPT !.pc = "built", !.kind = "read",
                              !.m = init_group_read(NewCemi, dst_addr)]
    /\ CodecUnchanged

\* body = cemi.to_body()
CemiToBody ==
    /\ codec.pc = "built"
    /\ codec.kind \in {"read", "write"}
    /\ codec' = [codec EXCEPT !.pc = "encoded", !.body = to_body(codec.m)]
    /\ CodecUnchanged

\* CEMIMessage.from_body(body)
CemiFromBody ==
    /\ codec.pc = "encoded"
    /\ codec.kind \in {"read", "write"}
    /\ codec' = [codec EXCEPT !.pc = "decoded",
                              !.res = from_body(codec.body)]
    /\ CodecUnchanged

\* group addresses and payload byte lists of the application
CemiAddrs == {0, 1, 255, 256, 2305, 65535}
CemiPayloads ==
    {<<>>, <<0>>, <<1>>, <<3>>, <<4>>, <<16>>, <<63>>, <<64>>, <<255>>,
     <<0, 0>>, <<1, 2>>, <<255, 255>>, <<12, 34, 56>>}

\* msg = CEMIMessage.from_body(req.cemi), of a telegram taken off the wire
CemiFromWire(cemi) ==
    /\ codec.pc = "idle"
    /\ codec' = [codec EXCEPT !.pc = "decoded", !.kind = "wire",
                              !.body = cemi, !.res = from_body(cemi)]
    /\ CodecUnchanged

\* cEMI telegrams a gateway can put into a TUNNELING_REQUEST: well formed
\* ones (with and without additional information, short and long APDU),
\* ones whose APDU length field disagrees with the bytes that follow, and
\* ones cut short before the end of the fixed fields
WireTelegrams ==
    {<<>>, <<41>>, <<41, 0>>, <<41, 0, 188>>,
     <<41, 0, 188, 224, 17, 1, 0, 1, 1, 0>>,
     <<41, 0, 188, 224, 17, 1, 0, 1, 1, 0, 129>>,
     <<41, 0, 188, 224, 17, 1, 0, 1, 2, 0, 129>>,
     <<41, 0, 188, 224, 17, 1, 0, 1, 0, 0, 129>>,
     <<41, 0, 188, 224, 17, 1, 0, 1, 2, 0, 128, 5>>,
     <<41, 0, 188, 224, 17, 1, 0, 1, 1, 0, 128, 5>>,
     <<41, 0, 188, 224, 17, 1, 0, 1, 3, 0, 64, 12, 34>>,
     <<41, 2, 9, 9, 188, 224, 17, 1, 0, 1, 1, 0, 129>>,
     <<41, 2, 9, 9, 188, 224, 17, 1, 0, 1, 1, 0>>,
     <<41, 4, 188, 224, 17, 1, 0, 1, 1, 0, 129>>,
     <<46, 0, 188, 224, 17, 1, 0, 2, 1, 0, 0>>}

NextCemi ==
    \/ \E a \in CemiAddrs, d \in CemiPayloads : BuildGroupWrite(a, TRUE, d)
    \/ \E a \in CemiAddrs : BuildGroupWrite(a, FALSE, <<>>)
    \/ \E a \in CemiAddrs : BuildGroupRead(a)
    \/ CemiToBody
    \/ CemiFromBody
    \/ \E w \in WireTelegrams : CemiFromWire(w)

SpecCemi == Init /\ [][NextCemi]_vars

(***************************************************************************)
(* KNXIPFrame (ip.py) and KNXNetIPHeader / KNXNetIPBody / KNXNetIPFrame    *)
(* (frame.py): encoding to bytes and decoding from bytes.                  *)
(***************************************************************************)
\* KNXIPFrame.total_length without the six bytes of the header
total_lengthOfBody(body) == Len(body)

\* KNXIPFrame.total_length
total_length(body) == 6 + Len(body)

\* KNXIPFrame.header
header(service_type_id, body) ==
    <<6, 16,
      (service_type_id \div 256) % 256, service_type_id % 256,
      (total_length(body) \div 256) % 256, total_length(body) % 256>>

\* KNXIPFrame.to_frame; body is None iff hasBody is FALSE
to_frame(f) ==
    IF ~f.hasBody
    THEN [exc |-> "TypeError", bytes |-> <<>>]
    ELSE [exc |-> "-", bytes |-> header(f.service_type_id, f.body) \o f.body]

\* KNXIPFrame.from_frame
from_frame(frame) ==
    IF Len(frame) < 4
    THEN [exc |-> "IndexError", service_type_id |-> 0, body |-> <<>>]
    ELSE [exc |-> "-",
          service_type_id |-> Byte(frame, 2) * 256 + Byte(frame, 3),
          body |-> SubSeq(frame, 7, Len(frame))]

\* the values of the enumeration ServiceTypeIdentifier
ServiceTypeIdentifier ==
    (513..522) \cup {784, 785, 1056, 1057, 1328, 1329}

\* struct.pack('!h', v) is defined for the signed 16-bit integers
Packable(v) == v \in -32768..32767

\* struct.pack('!h', v)
PackShort(v) ==
    LET u == IF v < 0 THEN v + 65536 ELSE v IN <<u \div 256, u % 256>>

\* KNXNetIPHeader.__bytes__
HeaderBytes(h) ==
    IF Packable(h.service_type_identifier) /\ Packable(h.total_frame_length)
    THEN [exc |-> "-",
          bytes |-> <<6, 16>> \o PackShort(h.service_type_identifier)
                        \o PackShort(h.total_frame_length)]
    ELSE [exc |-> "struct.error", bytes |-> <<>>]

\* KNXNetIPHeader.from_bytes
HeaderFromBytes(data) ==
    IF Len(data) /= 6
    THEN [exc |-> "struct.error", service_type_identifier |-> 0,
          total_frame_length |-> 0]
    ELSE IF Unpack(data[3], data[4]) \notin ServiceTypeIdentifier
    THEN [exc |-> "ValueError", service_type_identifier |-> 0,
          total_frame_length |-> 0]
    ELSE [exc |-> "-",
          service_type_identifier |-> Unpack(data[3], data[4]),
          total_frame_length |-> Unpack(data[5], data[6])]

\* bytes(knxip_body): of the default 0x0, of a KNXNetIPBody that has only
\* the connection header, of a KNXNetIPBody with a cEMI frame
BodyBytes(b) ==
    IF b.kind = "int" THEN [exc |-> "-", bytes |-> <<>>]
    ELSE IF b.kind = "cemi"
    THEN [exc |-> "NotImplementedError", bytes |-> <<>>]
    ELSE [exc |-> "-", bytes |-> <<4, b.ch, b.sq, 0>>]

\* KNXNetIPFrame.__bytes__
FrameBytes(f) ==
    LET hb == HeaderBytes(f.knxip_header)
        bb == BodyBytes(f.knxip_body)
        sized == [f.knxip_header EXCEPT
                    !.total_frame_length = Len(hb.bytes) + Len(bb.bytes)]
    IN  IF hb.exc /= "-" THEN hb
        ELSE IF bb.exc /= "-" THEN bb
        ELSE [exc |-> "-", bytes |-> HeaderBytes(sized).bytes \o bb.bytes]

\* a body of n zero bytes
Zeros(n) == [i \in 1..n |-> 0]

\* service types and bodies of the frames the application encodes
ServiceTypes == {517, 521, 1056, 1057, 1329}
FrameBodies ==
    {<<>>, <<4, 1, 0, 0>>, <<4, 1, 7, 0>> \o to_body(init_group_write(
        NewCemi, 1, TRUE, <<1>>)), Zeros(MaxBodyLen - 50), Zeros(MaxBodyLen)}
NetBodies ==
    {[kind |-> "int", ch |-> 0, sq |-> 0],
     [kind |-> "cemi", ch |-> 1, sq |-> 0]}
        \cup {[kind |-> "conn", ch |-> c, sq |-> q] :
                c \in {1, 5}, q \in {0, 20, 255}}

\* frame = KNXIPFrame(service_type_id); frame.body = body; frame.to_frame()
EncodeKNXIPFrame(st, hasBody, body) ==
    /\ codec.pc = "idle"
    /\ codec' = [codec EXCEPT
                    !.pc = "encoded", !.kind = "KNXIPFrame",
                    !.m = [service_type_id |-> st, hasBody |-> hasBody,
                           body |-> body],
                    !.res = to_frame([service_type_id |-> st,
                                      hasBody |-> hasBody, body |-> body])]
    /\ CodecUnchanged

\* bytes(KNXNetIPFrame(KNXNetIPHeader(st), body))
EncodeKNXNetIPFrame(st, b) ==
    /\ codec.pc = "idle"
    /\ LET f == [knxip_header |-> [service_type_identifier |-> st,
                                   total_frame_length |-> 6],
                 knxip_body |-> b]
       IN  codec' = [codec EXCEPT !.pc = "encoded",
                                  !.kind = "KNXNetIPFrame",
                                  !.m = f, !.res = FrameBytes(f)]
    /\ CodecUnchanged

\* KNXIPFrame.from_frame(frame) of a received datagram
DecodeKNXIPFrame(frame) ==
    /\ codec.pc = "idle"
    /\ codec' = [codec EXCEPT !.pc = "decoded", !.kind = "from_frame",
                              !.body = frame, !.res = from_frame(frame)]
    /\ CodecUnchanged

\* KNXNetIPHeader.from_bytes(data) of the first six bytes of a datagram
DecodeHeader(data) ==
    /\ codec.pc = "idle"
    /\ codec' = [codec EXCEPT !.pc = "decoded", !.kind = "from_bytes",
                              !.body = data, !.res = HeaderFromBytes(data)]
    /\ CodecUnchanged

\* datagrams with a right or a wrong header length and protocol version
WireHeaders ==
    {<<l, v, 4, t, 0, n>> : l \in {6, 7, 0}, v \in {16, 1, 32},
                             t \in {32, 33, 34}, n \in {6, 10}}
WireFrames ==
    {h \o b : h \in WireHeaders, b \in {<<>>, <<4, 1, 0, 0>>}}

NextFrame ==
    \/ \E st \in ServiceTypes, b \in FrameBodies :
            EncodeKNXIPFrame(st, TRUE, b)
    \/ \E st \in ServiceTypes : EncodeKNXIPFrame(st, FALSE, <<>>)
    \/ \E st \in ServiceTypes, b \in NetBodies : EncodeKNXNetIPFrame(st, b)
    \/ \E f \in WireFrames : DecodeKNXIPFrame(f)
    \/ \E h \in WireHeaders : DecodeHeader(h)

SpecFrame == Init /\ [][NextFrame]_vars

\* the GROUP_RESPONSEs of a bus whose objects are not all 1-bit
TogglePayloads == {<<0>>, <<1>>, <<2>>, <<0, 0>>}

ToggleFrames ==
    {<<1, 0, L_DATA_IND, "GROUP_RESPONSE", 1, v>> : v \in TogglePayloads}

NextToggle ==
    \/ ops < MaxToggleOps /\ CallConnect("c1")
    \/ ops < MaxToggleOps /\ \E uc \in BOOLEAN : CallToggle("c1", 1, uc)
    \/ SendNested("c1")
    \/ ReadResult("c1")
    \/ ReadTimeout("c1")
    \/ ToggleCheck("c1")
    \/ WriteReturn("c1")
    \/ ProgressOn("c1", {1})
    \/ \E sq \in BagToSet(toGw) : HandleAck(sq)
    \/ \E f \in ToggleFrames : HandleTunnelingRequest(f, {})

SpecToggle == InitRead /\ [][NextToggle]_vars

(***************************************************************************)
(* Steps of a client thread as seen from outside.                          *)
(***************************************************************************)
\* thread t starts the top-level call opname in this step
Calls(t, opname) ==
    /\ th[t].pc = "idle"
    /\ ops' = ops + 1
    /\ th'[t].op = opname
    /\ \A u \in Clients \ {t} : th'[u] = th[u]

\* thread t takes this step
StepOf(t) == th'[t] /= th[t]

Waiting == {t \in Clients : th[t].pc \in {"s_wait1", "s_wait2"}}

(***************************************************************************)
(* C1: at every moment at most one TUNNELING_REQUEST is sent and not yet   *)
(* acknowledged, for any number of client threads: no second request is    *)
(* transmitted while an earlier one still waits for its TUNNELLING_ACK.    *)
(***************************************************************************)
C1_OneOutstanding == Cardinality(Waiting) <= 1

(***************************************************************************)
(* C2: one call of send_tunnelling_request transmits at most twice; when   *)
(* the second wait times out too it runs disconnect() once, then connect() *)
(* once, and returns False.                                                *)
(***************************************************************************)
C2_BoundedSend ==
    [][\A t \in Clients :
        /\ th'[t].tx <= 2
        /\ (th[t].pc = "s_wait2" /\ ack_semaphore = 0 /\ StepOf(t))
              => (th'[t].pc = "s_reconn" /\ th'[t].nd = 1)
        /\ (th[t].pc = "s_reconn" /\ StepOf(t))
              => (th'[t].pc \in {"c_recv", "s_ret"} /\ th'[t].nc = 1)
        /\ (th[t].pc = "s_ret" /\ th[t].stack = <<>> /\ StepOf(t))
              => (th'[t].pc = "idle" /\ th'[t].result = "False")]_vars

(***************************************************************************)
(* C3: the sequence counter always lies in 0..255 and every transmitted    *)
(* TUNNELING_REQUEST advances it by exactly one modulo 256: after the      *)
(* transmission the counter is the successor of the number the frame       *)
(* carries, so consecutive requests carry consecutive numbers.             *)
(***************************************************************************)
C3_SequenceAdvance ==
    [][/\ seq' \in 0..255
       /\ \A t \in Clients :
             (th[t].pc = "s_add" /\ th'[t].pc = "s_wait1")
                => seq' = (th[t].fsq + 1) % 256]_vars

(***************************************************************************)
(* C4: connect() on a Connected tunnel returns True, sends no              *)
(* CONNECT_REQUEST and leaves channel, sequence, sockets, data server and  *)
(* value cache unchanged.                                                  *)
(***************************************************************************)
C4_ConnectIdempotent ==
    [][\A t \in Clients :
        (connected /\ Calls(t, "connect"))
           => /\ th'[t].pc = "idle"
              /\ th'[t].result = "True"
              /\ th'[t].creq = 0
              /\ out' = <<>>
              /\ UNCHANGED <<connected, channel, seq, data_server,
                             control_socket, values>>]_vars

C4_Witness ==
    /\ connected
    /\ th["c1"].pc = "idle"
    /\ th["c1"].op = "connect"
    /\ th["c1"].result = "True"
    /\ th["c1"].creq = 0

(***************************************************************************)
(* C5: when connect() receives a CONNECT_RESPONSE with status 0, it        *)
(* returns True, the stored channel is the channel byte of the response,   *)
(* the tunnel is Connected and the value cache is empty.                   *)
(***************************************************************************)
C5_ConnectSuccess ==
    [][\A t \in Clients :
        (th[t].pc = "c_recv" /\ StepOf(t) /\ Len(rcv') = 3 /\ rcv'[3] = 0)
           => /\ channel' = rcv'[2]
              /\ connected'
              /\ values' = EmptyCache
              /\ th[t].stack = <<>> => th'[t].result = "True"]_vars

C7_DiscoveryFails ==
    [][\A t \in Clients :
        (Calls(t, "connect") /\ ~connected
            /\ remote_ip = "0.0.0.0" /\ remote_ip' = "0.0.0.0")
           => /\ out' = <<>>
              /\ th'[t].pc = "idle"
              /\ th'[t].result = "False"
              /\ ~connected']_vars

(***************************************************************************)
(* C8: disconnect() sends a DISCONNECT_REQUEST if and only if the tunnel   *)
(* is Connected when it is called, whatever the channel id, and afterwards *)
(* the tunnel is Disconnected; a second disconnect() sends nothing.        *)
(***************************************************************************)
C8_DisconnectRequest ==
    [][\A t \in Clients :
        Calls(t, "disconnect")
           => /\ (out' /= <<>>) <=> connected
              /\ ~connected']_vars

(***************************************************************************)
(* C9: disconnect() completes without raising from every reachable state.  *)
(***************************************************************************)
C9_DisconnectNeverRaises ==
    \A t \in Clients :
        th[t].op = "disconnect" => th[t].result /= "Raised"

(***************************************************************************)
(* C10: after the dispatcher has processed a GROUP_WRITE or GROUP_RESPONSE *)
(* for address a with payload v, and no later telegram for a and no        *)
(* reconnect, group_read(a, use_cache=True) returns v at once: no frame is *)
(* sent, the sequence counter and the result queue are untouched.          *)
(***************************************************************************)
C10_CachedRead ==
    [][\A t \in Clients, a \in Addrs :
        (seen[a] /= NoValue /\ CallRead(t, a, TRUE))
           => /\ th'[t].pc = "idle"
              /\ th'[t].result = "Value"
              /\ th'[t].val = seen[a]
              /\ th'[t].tx = 0
              /\ out' = <<>>
              /\ UNCHANGED <<seq, result_queue, toGw>>]_vars

C10_Witness ==
    /\ th["c1"].pc = "idle"
    /\ th["c1"].op = "read"
    /\ th["c1"].result = "Value"
    /\ th["c1"].tx = 0
    /\ \E a \in Addrs : seen[a] /= NoValue /\ th["c1"].val = seen[a]
    /\ \E a \in Addrs : seen[a] = <<0>>

(***************************************************************************)
(* C11: every group_read call ends by returning a response payload or      *)
(* None, whether or not a TUNNELLING_ACK or a GROUP_RESPONSE arrives: a    *)
(* finished group_read has one of these two results.                       *)
(***************************************************************************)
C11_ReadReturns ==
    \A t \in Clients :
        (th[t].op = "read" /\ th[t].pc = "idle")
            => th[t].result \in {"Value", "None"}

(***************************************************************************)
(* C12: group_toggle writes [1] when the value read is [0] and [0] when it *)
(* is [1]; in every other case (another length, a single byte other than  *)
(* 0 or 1, no value because the read timed out) it fails with KNXException *)
(* and sends no group write.                                               *)
(***************************************************************************)
C12_Toggle ==
    [][\A t \in Clients :
        (th[t].pc = "t_check" /\ StepOf(t))
           => IF th[t].result = "Value" /\ th[t].val \in {<<0>>, <<1>>}
              THEN /\ th'[t].result /= "KNXException"
                   /\ th'[t].pc /= "idle"
                         => /\ th'[t].cmd = "GROUP_WRITE"
                            /\ th'[t].data = <<1 - th[t].val[1]>>
              ELSE /\ th'[t].pc = "idle"
                   /\ th'[t].result = "KNXException"
                   /\ out' = <<>>]_vars

\* the last step dispatched the group telegram f
Dispatched(f) ==
    /\ rcv' = <<"TUNNELING_REQUEST", f>>
    /\ f[3] \in {L_DATA_IND, L_DATA_CON}
    /\ f[4] \in {"GROUP_WRITE", "GROUP_RESPONSE"}

NoDuplicates(listeners) ==
    \A i, j \in DOMAIN listeners : listeners[i] = listeners[j] => i = j

(***************************************************************************)
(* C13: for each inbound GROUP_WRITE or GROUP_RESPONSE for address a the   *)
(* notify sink, if set, is invoked once before any listener, then every    *)
(* listener registered for a once, in registration order; registering a    *)
(* function twice for an address adds no invocation.                       *)
(***************************************************************************)
C13_DispatchOrder ==
    [][\A f \in ListenFrames :
        Dispatched(f)
           => LET listeners == Listeners(address_listeners, f[5])
              IN  /\ NoDuplicates(listeners)
                  /\ calls' = (IF notify THEN <<"notify">> ELSE <<>>)
                                  \o listeners]_vars

(***************************************************************************)
(* C14: an exception raised by the notify sink or by a listener never      *)
(* breaks dispatch: the remaining listeners of the address are invoked, a  *)
(* GROUP_RESPONSE payload is pushed to the result queue and the            *)
(* TUNNELLING_ACK of the frame is sent.                                    *)
(***************************************************************************)
C14_DispatchSurvives ==
    [][\A f \in ListenFrames :
        Dispatched(f)
           => /\ out' = <<TunnellingAck(f[1], f[2])>>
              /\ f[4] = "GROUP_RESPONSE"
                    => result_queue' = Append(result_queue, f[6])
              /\ \A func \in Funcs :
                    IsIn(func, Listeners(address_listeners, f[5]))
                        => IsIn(func, calls')]_vars

\* the payloads of the telegrams for the address of the i-th datagram that
\* arrived with it or after it
NotOlder(i) ==
    {hth[j].f[6] : j \in {k \in DOMAIN hth :
                            k >= i /\ hth[k].f[5] = hth[i].f[5]}}

(***************************************************************************)
(* C15: whenever a listener or the notify sink is invoked for a frame with *)
(* payload v for address a, the value cache entry of a is v or the payload *)
(* of a frame for a that arrived later, never that of an earlier frame,    *)
(* for every interleaving of the handler threads.  (An entry that a        *)
(* connect() has cleared meanwhile holds no payload of any frame.)         *)
(***************************************************************************)
C15_CacheNotOlder ==
    [][\A i \in DOMAIN hth :
        (hth[i].pc = "notify" /\ hth'[i].pc = "done" /\ calls' /= <<>>)
           => \/ CacheGet(values, hth[i].f[5]) \in NotOlder(i)
              \/ CacheGet(values, hth[i].f[5]) = NoValue]_vars

(***************************************************************************)
(* C16: unregister_listener(address, func) returns True if func was        *)
(* registered for address and removes it, and returns False otherwise,     *)
(* also when no listener was ever registered for the address; it does not  *)
(* raise, and afterwards func is not a listener of the address.            *)
(***************************************************************************)
C16_Unregister ==
    [][\A t \in Clients, a \in Addrs, func \in Funcs :
        unregister_listener(t, a, func)
           => /\ th'[t].result =
                    IF IsIn(func, Listeners(address_listeners, a))
                    THEN "True" ELSE "False"
              /\ ~IsIn(func, Listeners(address_listeners', a))]_vars

(***************************************************************************)
(* C17: when a send finds no live data server and auto-connect is enabled, *)
(* connect() is run before any TUNNELING_REQUEST is built or sent: the     *)
(* call puts its CONNECT_REQUEST on the wire (unless the tunnel is         *)
(* Connected already) and, when the gateway answers it with status 0, the  *)
(* tunnel is Connected and the send goes on.  With auto-connect disabled   *)
(* the send raises KNXException, transmits nothing and leaves the sequence *)
(* counter unchanged.                                                      *)
(***************************************************************************)
C17_AutoConnect ==
    [][\A t \in Clients :
        /\ (~data_server /\ CallSend(t, TRUE))
              => /\ seq' = seq
                 /\ th'[t].tx = 0
                 /\ \/ connected /\ out' = <<>>
                    \/ out' = <<ConnectRequest>> /\ th'[t].pc = "c_recv"
        /\ (th[t].op = "send" /\ th[t].pc = "c_recv" /\ th[t].nc = 0
               /\ StepOf(t) /\ Len(rcv') = 3 /\ rcv'[3] = 0)
              => connected' /\ th'[t].pc = "s_build"
        /\ (~data_server /\ CallSend(t, FALSE))
              => /\ th'[t].pc = "idle"
                 /\ th'[t].result = "KNXException"
                 /\ out' = <<>>
                 /\ seq' = seq]_vars

(***************************************************************************)
(* C18: after disconnect() no socket or server opened by the tunnel is     *)
(* left open: the control socket and the data server socket are closed.    *)
(***************************************************************************)
C18_DisconnectCloses ==
    [][\A t \in Clients :
        (Calls(t, "disconnect") /\ th'[t].result = "None")
           => ~control_socket' /\ ~data_server']_vars

(***************************************************************************)
(* C19: start_search always returns, for every ordering of the response,   *)
(* the timeout timer and the sending of the SEARCH_REQUEST: it never ends  *)
(* with an exception or waits with nothing left to wake it, and when it    *)
(* returns None both the receiver and the broadcaster socket are closed.   *)
(***************************************************************************)
C19_SearchReturns ==
    /\ scan.pc \notin {"raised", "hung"}
    /\ (scan.pc = "returned" /\ scan.result = "None")
          => scan.receiver = "closed" /\ scan.broadcaster = "closed"

(***************************************************************************)
(* C20: for every SEARCH_RESPONSE the tuple returned by discovery has as   *)
(* IP bytes 8..11 of the datagram and as port the unsigned big-endian      *)
(* 16-bit value of bytes 12..13, for every port in 0..65535.               *)
(***************************************************************************)
C20_ResolvedAddress ==
    scan.result = "Found"
        => /\ scan.ip = <<scan.dgram[9], scan.dgram[10], scan.dgram[11],
                          scan.dgram[12]>>
           /\ scan.port = <<scan.dgram[13] * 256 + scan.dgram[14]>>

(***************************************************************************)
(* C21: cEMI round trip.  For every message m built by init_group_read or  *)
(* init_group_write, with a destination in 0..65535 and any payload byte   *)
(* list, from_body(to_body(m)) has the message code, control fields,       *)
(* source, destination and data of m, and its command is GROUP_READ or     *)
(* GROUP_WRITE respectively.                                               *)
(***************************************************************************)
C21_CemiRoundTrip ==
    (codec.pc = "decoded" /\ codec.kind \in {"read", "write"})
        => /\ codec.res.exc = "-"
           /\ codec.res.m.code = codec.m.code
           /\ codec.res.m.ctl1 = codec.m.ctl1
           /\ codec.res.m.ctl2 = codec.m.ctl2
           /\ codec.res.m.src_addr = codec.m.src_addr
           /\ codec.res.m.dst_addr = codec.m.dst_addr
           /\ codec.res.m.data = codec.m.data
           /\ codec.res.m.cmd = IF codec.kind = "read" THEN "GROUP_READ"
                                ELSE "GROUP_WRITE"

(***************************************************************************)
(* C22: to_body packs every single-byte payload whose value is in 0..63    *)
(* into the low bits of the APCI byte, with APDU length 1; every other     *)
(* payload is encoded with APDU length 1 + len(data), followed by the data *)
(* bytes.                                                                  *)
(***************************************************************************)
C22_ShortApdu ==
    (codec.pc = "encoded" /\ codec.kind \in {"read", "write"})
        => LET data == codec.m.data
               body == codec.body
           IN  IF Len(data) = 1 /\ data[1] \in 0..63
               THEN /\ Len(body) = 11
                    /\ body[9] = 1
                    /\ body[11] = (codec.m.tpci_apci % 256) + data[1]
               ELSE /\ Len(body) = 11 + Len(data)
                    /\ body[9] = 1 + Len(data)
                    /\ body[11] = codec.m.tpci_apci % 256
                    /\ SubSeq(body, 12, Len(body)) = data

C24_DecodeVerifiesHeader ==
    (/\ codec.pc = "decoded"
     /\ codec.kind \in {"from_frame", "from_bytes"}
     /\ (codec.body[1] /= 6 \/ codec.body[2] /= 16))
        => codec.res.exc = "KNXException"

(***************************************************************************)
(* C25: the sequence counter is changed only by a client thread that       *)
(* sends a TUNNELING_REQUEST: connect(), disconnect() and the inbound      *)
(* dispatcher leave it unchanged, so a send that fails and reconnects      *)
(* advances it by exactly one in total.                                    *)
(***************************************************************************)
C25_SeqOnlyOnSend ==
    [][seq' /= seq
         => \E t \in Clients : th[t].pc = "s_add" /\ StepOf(t)]_vars

(***************************************************************************)
(* C26: the ack semaphore is binary: after any sequence of sends,          *)
(* retransmissions and inbound TUNNELLING_ACKs, duplicate and late ones    *)
(* included, its count is 0 or 1, and it is 0 when a new send begins,      *)
(* that is when a request is about to be transmitted for the first time.   *)
(***************************************************************************)
C26_BinarySemaphore ==
    /\ ack_semaphore \in {0, 1}
    /\ \A t \in Clients : th[t].pc = "s_add" => ack_semaphore = 0

(***************************************************************************)
(* C27: send_tunnelling_request reports success only if a TUNNELLING_ACK   *)
(* for this very request arrived after its first transmission: when the    *)
(* wait for the ack succeeds, the gateway has acknowledged at least one of *)
(* the transmissions of this request, so fewer copies of its sequence      *)
(* number are unacknowledged than were transmitted.                        *)
(***************************************************************************)
C27_AckOfThisRequest ==
    [][\A t \in Clients :
        (/\ th[t].pc \in {"s_wait1", "s_wait2"}
         /\ StepOf(t)
         /\ ack_semaphore' < ack_semaphore)
            => CopiesIn(th[t].fsq, toGw) < th[t].tx]_vars

\* the handler has taken the TUNNELING_REQUEST f in this step
Handled(f) == rcv' = <<"TUNNELING_REQUEST", f>>

(***************************************************************************)
(* C28: for every inbound TUNNELING_REQUEST whose cEMI message code is     *)
(* 0x29 or 0x2e exactly one TUNNELLING_ACK is sent back, with the channel  *)
(* and the sequence number of the request and status 0; for any other      *)
(* message code no ACK is sent and the cache, the listeners and the result *)
(* queue are untouched.                                                    *)
(***************************************************************************)
C28_AckEveryRequest ==
    [][\A f \in BusFrames \cup ListenFrames :
        Handled(f)
           => IF f[3] \in {L_DATA_IND, L_DATA_CON}
              THEN out' = <<TunnellingAck(f[1], f[2])>>
              ELSE /\ out' = <<>>
                   /\ values' = values
                   /\ calls' = <<>>
                   /\ result_queue' = result_queue]_vars

(***************************************************************************)
(* C29: in inbound dispatch the value cache is updated and notify and the  *)
(* listeners are invoked exactly for GROUP_WRITE and GROUP_RESPONSE        *)
(* frames, and a payload is pushed to the result queue exactly for         *)
(* GROUP_RESPONSE frames; an inbound GROUP_READ or GROUP_WRITE adds        *)
(* nothing to the result queue.                                            *)
(***************************************************************************)
C29_DispatchByCommand ==
    [][\A f \in BusFrames \cup ListenFrames :
        (Handled(f) /\ f[3] \in {L_DATA_IND, L_DATA_CON})
           => /\ values' = IF f[4] \in {"GROUP_WRITE", "GROUP_RESPONSE"}
                           THEN [values EXCEPT ![f[5]] = f[6]]
                           ELSE values
              /\ \A cb \in CallbackNames :
                    IsIn(cb, calls')
                       <=> /\ f[4] \in {"GROUP_WRITE", "GROUP_RESPONSE"}
                           /\ \/ cb = "notify" /\ notify
                              \/ IsIn(cb, Listeners(address_listeners,
                                                    f[5]))
              /\ result_queue' = IF f[4] = "GROUP_RESPONSE"
                                 THEN Append(result_queue, f[6])
                                 ELSE result_queue]_vars

(***************************************************************************)
(* C30: the value group_read(addr, use_cache=False) returns is the payload *)
(* of a GROUP_RESPONSE whose destination is addr and that was received     *)
(* after the request of this read was sent: a response for another         *)
(* address, or one queued before the request was sent, is never returned.  *)
(***************************************************************************)
C30_ReadReturnsOwnResponse ==
    [][\A t \in Clients :
        (/\ th[t].pc = "r_wait"
         /\ ~th[t].uc
         /\ StepOf(t)
         /\ result_queue' /= result_queue)
           => /\ Head(queued).addr = th[t].addr
              /\ Head(queued).sent = "after"]_vars

(***************************************************************************)
(* C31: a TUNNELING_REQUEST is transmitted only while the tunnel is        *)
(* Connected: after disconnect() or after a failed connect() a send either *)
(* reconnects successfully first or transmits nothing.                     *)
(***************************************************************************)
C31_SendOnlyConnected ==
    [][\A i \in DOMAIN out' :
        out'[i].svc = "TUNNELING_REQUEST" => connected]_vars

(***************************************************************************)
(* C35: after the dispatcher has processed a DISCONNECT_RESPONSE the data  *)
(* server is removed and the tunnel is marked Disconnected: connected is   *)
(* false and the channel id of the tunnel is cleared.                      *)
(***************************************************************************)
C35_DisconnectResponse ==
    [][rcv' = <<"DISCONNECT_RESPONSE">>
         => /\ ~data_server'
            /\ ~connected'
            /\ channel' = NoChannel]_vars

(***************************************************************************)
(* C38: a send never uses a missing data server: under every interleaving  *)
(* with the handling of a DISCONNECT_RESPONSE, a send that is about to     *)
(* transmit or to retransmit does not fail because the data server has     *)
(* been removed.                                                           *)
(***************************************************************************)
C38_SendHasDataServer ==
    [][\A t \in Clients :
        (/\ th[t].pc \in {"s_add", "s_wait1"}
         /\ StepOf(t)
         /\ th'[t].result = "Raised")
            => data_server]_vars

(***************************************************************************)
(* C40: the first TUNNELING_REQUEST sent on a newly established connection *)
(* carries sequence number 0, on the first connect and on every later      *)
(* reconnect: the counter is 0 when a connection is established, and the   *)
(* first transmission of a send that has just connected carries 0.         *)
(***************************************************************************)
C40_FirstSequenceZero ==
    [][/\ (~connected /\ connected') => seq' = 0
       /\ \A t \in Clients :
             (/\ th[t].pc = "s_add"
              /\ th[t].ac >= 1
              /\ th'[t].pc = "s_wait1")
                => th[t].fsq = 0]_vars

(***************************************************************************)
(* C37: the cEMI decoder accepts a telegram only if the APDU length field  *)
(* equals the number of bytes from the APCI byte to the end of the         *)
(* telegram, and every failure of the decoder (length mismatch, telegram   *)
(* too short for the fixed fields) is a KNXException.                      *)
(***************************************************************************)
C37_DecodeFailsAsKNXException ==
    (codec.pc = "decoded" /\ codec.kind = "wire")
        => LET cemi == codec.body
               fixed == Len(cemi) >= 2 /\ Len(cemi) >= 11 + Byte(cemi, 1)
               fits == /\ fixed
                       /\ Byte(cemi, 8 + Byte(cemi, 1))
                            = Len(cemi) - (10 + Byte(cemi, 1))
           IN  /\ codec.res.exc = "-" => fits
               /\ codec.res.exc /= "-" => codec.res.exc = "KNXException"

(***************************************************************************)
(* C39: listener registrations are per tunnel: the listeners invoked for a *)
(* message received by one KNXIPTunnel object are those registered on      *)
(* that object and not unregistered on it; registering or unregistering   *)
(* on another object neither adds to nor removes from them.                *)
(***************************************************************************)
C39_ListenersPerTunnel ==
    tunnels.at /= "-"
        => \A f \in Funcs :
              IsIn(f, calls)
                 <=> <<tunnels.at, tunnels.addr, f>> \in tunnels.reg

(***************************************************************************)
(* C32: one heartbeat check calls disconnect() only after three attempts   *)
(* have each failed, and a check in which an attempt was answered with     *)
(* status 0 ends with the tunnel still Connected.                          *)
(***************************************************************************)
C32_ThreeAttempts ==
    [][(beat.pc = "after" /\ beat'.pc /= "after")
          => /\ ~CheckResult(beat.res, connection_state)
                    => (beat.retry = 2 /\ ~beat.res)
             /\ beat.res => connected' = connected]_vars

(***************************************************************************)
(* C33: no CONNECTIONSTATE_REQUEST is transmitted while the tunnel is not  *)
(* Connected, under every interleaving of the heartbeat thread with the    *)
(* client's disconnect() and connect().                                    *)
(***************************************************************************)
C33_HeartbeatOnlyConnected ==
    [][\A i \in DOMAIN out' :
          out'[i].svc = "CONNECTIONSTATE_REQUEST" => connected]_vars

C36_StateFromResponse ==
    [][(Len(hth') > Len(hth)
          /\ hth'[Len(hth')].f[1] = "CONNECTIONSTATE_RESPONSE")
         => /\ hth'[Len(hth')].pc = "done"
            /\ connection_state' = hth'[Len(hth')].f[2][2]]_vars

====
